---- MODULE Spec2Model ----
(***************************************************************************)
(* Rate limiter, promise-chaining mutex and retry executor of the GitHub   *)
(* service (github.rate.limiter / github.service), run on a JavaScript     *)
(* event loop: continuations of awaits are microtasks, run in FIFO order;  *)
(* timers and API responses are macrotasks, taken only when the microtask  *)
(* queue is empty.  Callers of the public API may call at any point.       *)
(***************************************************************************)
EXTENDS Integers, Sequences, FiniteSets, TLC

VARIABLES
  now,            \* Date.now(), in ms
  config,         \* GitHubRateLimiter.config (rateLimiting section)
  rateLimitInfo,  \* GitHubRateLimiter.rateLimitInfo
  locking,        \* AsyncMutex._locking: 0 = a resolved promise, t = the pending promise made by task t
  locked,         \* AsyncMutex._locked
  owns,           \* owns[t]: the promise made in t's last acquire() is still pending
  reactions,      \* reactions[t]: tasks suspended in `await this._locking` on t's promise, in order
  mq,             \* the microtask queue: tasks whose continuation is ready, in order
  timerQ,         \* tasks with a pending setTimeout, in creation order
  deadline,       \* deadline[t]: when t's pending timer is due
  kind,           \* kind[t]: what the caller invoked: "check", "update", "handle", "exec"
  op,             \* op[t]: the limiter operation t is executing
  pc,             \* pc[t]: where t is
  arg,            \* arg[t]: newInfo of an update, retryAfter of a handleRateLimitExceeded
  waitTime,       \* waitTime[t]: the local waitTime of the limiter operation
  result,         \* result[t]: how the limiter operation / the facade call ended
  retryCount,     \* retryCount[t]: local of executeWithRateLimiting
  lastError,      \* lastError[t]: the error caught by executeWithRateLimiting
  domainOp,       \* domainOp[t]: the domain operation that t runs, "none" for other callers
  hist,           \* hist[t]: observations of t's run (what a test harness would record)
  lastIssued      \* newInfo of the most recently issued safelyUpdateRateLimitInfo call

mutexVars == <<locking, locked, owns, reactions>>
timerVars == <<timerQ, deadline>>
execVars  == <<retryCount, lastError, domainOp>>
vars == <<now, config, rateLimitInfo, locking, locked, owns, reactions, mq, timerQ,
          deadline, kind, op, pc, arg, waitTime, result, retryCount, lastError, domainOp, hist,
          lastIssued>>

----------------------------------------------------------------------------
(* Bounds of the model *)
NumTasks == 4
MaxLoad == 4
ExecWeight == 3
MaxFacadeCalls == 2
StartTime == 10000
ElapseMs == 3000
MaxNow == 13000
MaxTimeouts == 2
MaxCancels == 3
MaxDomainCalls == 1
MaxRetryCalls == 2
MaxMutexCallers == 3

Tasks == 1..NumTasks

(* JavaScript values *)
NaN == 0 - 999999999
Undefined == <<"undefined">>
IsNaN(x) == x = NaN
Max(a, b) == IF a >= b THEN a ELSE b

JsAdd(a, b) == IF IsNaN(a) \/ IsNaN(b) THEN NaN ELSE a + b
JsSub(a, b) == IF IsNaN(a) \/ IsNaN(b) THEN NaN ELSE a - b
JsMul(a, b) == IF IsNaN(a) \/ IsNaN(b) THEN NaN ELSE a * b
JsGt(a, b)  == ~IsNaN(a) /\ ~IsNaN(b) /\ a > b
JsLeq(a, b) == ~IsNaN(a) /\ ~IsNaN(b) /\ a <= b

IsDigit(c) == c \in {"0", "1", "2", "3", "4", "5", "6", "7", "8", "9"}
DigitVal(c) ==
  CASE c = "0" -> 0 [] c = "1" -> 1 [] c = "2" -> 2 [] c = "3" -> 3 [] c = "4" -> 4
    [] c = "5" -> 5 [] c = "6" -> 6 [] c = "7" -> 7 [] c = "8" -> 8 [] c = "9" -> 9

RECURSIVE ParseDigits(_, _)
ParseDigits(s, acc) ==
  IF s = <<>> \/ ~IsDigit(Head(s)) THEN acc
  ELSE ParseDigits(Tail(s), acc * 10 + DigitVal(Head(s)))

\* parseInt(s, 10) of a string given as its sequence of characters
ParseInt(s) ==
  LET signed == s # <<>> /\ Head(s) \in {"-", "+"}
      body == IF signed THEN Tail(s) ELSE s
  IN IF body = <<>> \/ ~IsDigit(Head(body)) THEN NaN
     ELSE IF signed /\ Head(s) = "-" THEN 0 - ParseDigits(body, 0)
     ELSE ParseDigits(body, 0)

----------------------------------------------------------------------------
(* Inputs *)
ConfigSet ==
  { [enabled |-> TRUE,  minRemaining |-> 50, resetBufferMs |-> 500],
    [enabled |-> TRUE,  minRemaining |-> 50, resetBufferMs |-> 5000],
    [enabled |-> FALSE, minRemaining |-> 50, resetBufferMs |-> 5000] }

Hdr(rem, reset, lim) ==
  [remaining |-> rem, reset |-> reset, limit |-> lim]

\* response headers x-ratelimit-remaining / -reset (epoch seconds) / -limit
CompleteHeaders ==
  { Hdr(<<"1", "0">>, <<"1", "2">>, <<"5", "0", "0", "0">>),
    Hdr(<<"9">>, <<"1", "0", "0">>, <<"6", "0">>),
    Hdr(<<"4", "0", "0", "0">>, <<"1", "2">>, <<"1", "0", "0", "0">>) }
PartialHeaders ==
  { Hdr(<<"7">>, Undefined, <<"8", "0">>),
    Hdr(Undefined, <<"1", "1">>, <<"8", "0">>),
    Hdr(<<"7">>, <<"1", "1">>, Undefined) }
HeaderSets == CompleteHeaders \cup PartialHeaders

\* header sets with all three headers present, one of them not the text of such a number:
\* no digits, a negative count, an empty value with a limit of zero
MalformedHeaders ==
  { Hdr(<<"a", "b", "c">>, <<"1", "2">>, <<"5", "0", "0", "0">>),
    Hdr(<<"-", "5">>, <<"1", "2">>, <<"6", "0">>),
    Hdr(<<"7">>, <<>>, <<"0">>) }

RetryAfters == { Undefined, <<"5">> }

\* what octokit throws: a RequestError with status, message and response.headers
ApiError(status, message, retryAfter) ==
  [state |-> "thrown", shape |-> "request", status |-> status, message |-> message,
   response |-> [headers |-> [retryAfter |-> retryAfter]]]

RateLimitMessage == <<"API", "rate", "limit", "exceeded", "for", "user">>
ApiErrors ==
  { ApiError(500, <<"Server", "Error">>, Undefined),
    ApiError(400, <<"Validation", "Failed">>, Undefined),
    ApiError(403, RateLimitMessage, Undefined),
    ApiError(403, RateLimitMessage, <<"5">>) }

\* further failures of the remote call: other transient statuses, a plain 403, an Error
\* without status (network failure), a thrown value that is no object
DomainApiErrors ==
  ApiErrors \cup
  { ApiError(429, <<"Too", "Many", "Requests">>, Undefined),
    ApiError(502, <<"Bad", "Gateway">>, Undefined),
    ApiError(403, <<"Forbidden">>, Undefined),
    [state |-> "thrown", shape |-> "error", message |-> <<"socket", "hang", "up">>],
    [state |-> "thrown", shape |-> "string"] }

DomainOps == {"createRepositoryIssue", "getRepositoryByOwnerAndName"}

\* what octokit resolves with: data and headers
OctokitResponses ==
  { [data |-> "entity", headers |-> h] : h \in {Hdr(<<"4", "9">>, <<"1", "3">>, <<"7", "0">>)} }

NoArg == [none |-> TRUE]
NoResult == [state |-> "pending"]
Returned == [state |-> "returned"]

InitialInfo == [remaining |-> 5000, resetTime |-> StartTime + 3600000, limit |-> 5000]

NoHist ==
  [atCall |-> NoArg, seen |-> NoArg, timers |-> 0, releases |-> 0,
   calls |-> 0, statuses |-> {}, delays |-> <<>>, handles |-> 0, events |-> <<>>]

\* what is recorded of a limiter operation, reset when the task begins the next one
FreshOp(h) ==
  [h EXCEPT !.atCall = rateLimitInfo.remaining, !.seen = NoArg, !.timers = 0, !.releases = 0]

Init ==
  /\ now = StartTime
  /\ config \in ConfigSet
  /\ rateLimitInfo = InitialInfo
  /\ locking = 0
  /\ locked = FALSE
  /\ owns = [t \in Tasks |-> FALSE]
  /\ reactions = [t \in Tasks |-> <<>>]
  /\ mq = <<>>
  /\ timerQ = <<>>
  /\ deadline = [t \in Tasks |-> 0]
  /\ kind = [t \in Tasks |-> "none"]
  /\ op = [t \in Tasks |-> "none"]
  /\ pc = [t \in Tasks |-> "idle"]
  /\ arg = [t \in Tasks |-> NoArg]
  /\ waitTime = [t \in Tasks |-> 0]
  /\ result = [t \in Tasks |-> NoResult]
  /\ retryCount = [t \in Tasks |-> 0]
  /\ lastError = [t \in Tasks |-> NoArg]
  /\ domainOp = [t \in Tasks |-> "none"]
  /\ hist = [t \in Tasks |-> NoHist]
  /\ lastIssued = NoArg

----------------------------------------------------------------------------
(* Error factory *)
CreateStandardizedError(message, code, category, severity) ==
  [state |-> "thrown", shape |-> "standardized", errorMessage |-> message,
   errorCode |-> code, errorCategory |-> category, errorSeverity |-> severity]

CreateGithubApiError(message) ==
  CreateStandardizedError(message, "GITHUB_API_ERROR", "GITHUB_API", "ERROR")

CreateValidationError(message) ==
  CreateStandardizedError(message, "VALIDATION_ERROR", "VALIDATION", "WARN")

\* wrapExceptionAsStandardizedError: the message of an Error, String(exception) of
\* anything else, the default message if that is empty
WrapExceptionAsStandardizedError(exception, defaultMessage) ==
  [state |-> "thrown", shape |-> "standardized",
   errorMessage |-> IF exception.shape \in {"request", "error"} THEN exception.message
                    ELSE IF exception.shape = "string" THEN defaultMessage
                    ELSE "[object Object]",
   errorCode |-> "UNEXPECTED_ERROR", errorCategory |-> "UNKNOWN", errorSeverity |-> "ERROR"]

CreateFailureResult(error) == [resultSuccessful |-> FALSE, resultError |-> error]
CreateSuccessResult(data) == [resultSuccessful |-> TRUE, resultData |-> data]

----------------------------------------------------------------------------
(* AsyncMutex *)

\* acquire() up to `await this._locking`: on a resolved promise the continuation
\* is queued at once, on a pending one it is registered as a reaction
MqAfterAwaitLocking(q, t) == IF locking = 0 THEN Append(q, t) ELSE q
ReactionsAfterAwaitLocking(t) ==
  IF locking = 0 THEN reactions ELSE [reactions EXCEPT ![locking] = Append(@, t)]

\* variant: resolve() left out of releaseFn, the waiters of t's promise stay suspended
MqAfterRelease_NoWakeup(q, t) == q

\* releaseFn(): _locked = false; resolve() queues the reactions of t's promise
LockingAfterRelease(t) == IF locking = t THEN 0 ELSE locking
MqAfterRelease(q, t) == q \o reactions[t]

\* the first idle task: tasks are interchangeable and are started in the order of their ids
NextIdle(t) == pc[t] = "idle" /\ \A u \in Tasks : u < t => pc[u] # "idle"

\* the callers started so far; a facade call counts ExecWeight
Load ==
  Cardinality({t \in Tasks : kind[t] \in {"check", "update", "handle"}})
    + ExecWeight * Cardinality({t \in Tasks : kind[t] = "exec"})

\* the tail of acquire(), after `await this._locking`
AcquireBody(t) ==
  /\ mq # <<>> /\ Head(mq) = t
  /\ pc[t] = "acq_await"
  /\ locked' = TRUE
  /\ locking' = t
  /\ owns' = [owns EXCEPT ![t] = TRUE]
  /\ reactions' = [reactions EXCEPT ![t] = <<>>]
  /\ mq' = Append(Tail(mq), t)
  /\ pc' = [pc EXCEPT ![t] = "acquired"]
  /\ UNCHANGED <<now, config, rateLimitInfo, timerVars, kind, op, arg, waitTime, result,
                 execVars, hist, lastIssued>>

----------------------------------------------------------------------------
(* Timers *)
\* Node's setTimeout: a delay that is NaN or below 1 is 1
TimerDelay(w) == IF IsNaN(w) \/ w < 1 THEN 1 ELSE w

\* the pending timer that is due first; equal deadlines fire in creation order
DueFirst(t) ==
  \E i \in 1..Len(timerQ) :
    /\ timerQ[i] = t
    /\ \A j \in 1..Len(timerQ) :
         \/ deadline[timerQ[j]] > deadline[t]
         \/ (deadline[timerQ[j]] = deadline[t] /\ i <= j)

WithoutTimer(t) == SelectSeq(timerQ, LAMBDA u : u # t)

\* the callback of setTimeout: resolve(null) queues the continuation of the waiting task
TimerFire(t) ==
  /\ mq = <<>>
  /\ pc[t] = "waiting"
  /\ DueFirst(t)
  /\ now' = Max(now, deadline[t])
  /\ timerQ' = WithoutTimer(t)
  /\ mq' = <<t>>
  /\ pc' = [pc EXCEPT ![t] = "woken"]
  /\ UNCHANGED <<config, rateLimitInfo, mutexVars, deadline, kind, op, arg, waitTime, result,
                 execVars, hist, lastIssued>>

\* time passes between two macrotasks
Elapse ==
  /\ mq = <<>>
  /\ now + ElapseMs <= MaxNow
  /\ now' = now + ElapseMs
  /\ UNCHANGED <<config, rateLimitInfo, mutexVars, mq, timerVars, kind, op, pc, arg, waitTime,
                 result, execVars, hist, lastIssued>>

----------------------------------------------------------------------------
(* createSafeTimeout *)
SafeTimeoutDelays == {0, 1000, 4000}

InTimerQ(t) == \E i \in 1..Len(timerQ) : timerQ[i] = t

\* createSafeTimeout(ms): the closure (cancelled = false), the promise and its setTimeout
CreateSafeTimeout(t, ms) ==
  /\ NextIdle(t)
  /\ t <= MaxTimeouts
  /\ kind' = [kind EXCEPT ![t] = "timeout"]
  /\ pc' = [pc EXCEPT ![t] = "timeout"]
  /\ arg' = [arg EXCEPT ![t] = [ms |-> ms, cancelled |-> FALSE]]
  /\ deadline' = [deadline EXCEPT ![t] = now + TimerDelay(ms)]
  /\ timerQ' = Append(timerQ, t)
  /\ result' = [result EXCEPT ![t] = NoResult]
  /\ hist' = [hist EXCEPT ![t] = [NoHist EXCEPT !.seen = [now |-> now]]]
  /\ UNCHANGED <<now, config, rateLimitInfo, mutexVars, mq, op, waitTime, execVars, lastIssued>>

\* the callback given to setTimeout: `if (!cancelled) resolve()`
SafeTimeoutCallback(t) ==
  /\ mq = <<>>
  /\ kind[t] = "timeout"
  /\ DueFirst(t)
  /\ now' = Max(now, deadline[t])
  /\ timerQ' = WithoutTimer(t)
  /\ IF ~arg[t].cancelled
     THEN /\ result' = [result EXCEPT ![t] = Returned]
          /\ hist' = [hist EXCEPT ![t].events = Append(@, "resolve")]
     ELSE /\ hist' = [hist EXCEPT ![t].events = Append(@, "callback")]
          /\ UNCHANGED result
  /\ UNCHANGED <<config, rateLimitInfo, mutexVars, mq, deadline, kind, op, pc, arg, waitTime,
                 execVars, lastIssued>>

\* variant: cancel does nothing
CancelState_Noop(s) == s

\* variant: cancel sets the flag and leaves the timer
CancelState_FlagOnly(s) == [s EXCEPT !.cancelled = TRUE]

\* cancel(): `if (!cancelled) { cancelled = true; clearTimeout(timeoutId); }`
\* s.timer: the setTimeout of the closure is pending
CancelState(s) ==
  IF ~s.cancelled THEN [cancelled |-> TRUE, timer |-> FALSE] ELSE s

\* a holder of the timeout object calls cancel()
CancelSafeTimeout(t) ==
  /\ kind[t] = "timeout"
  /\ Len(SelectSeq(hist[t].events, LAMBDA e : e = "cancel")) < MaxCancels
  /\ LET s == CancelState([cancelled |-> arg[t].cancelled, timer |-> InTimerQ(t)])
     IN /\ arg' = [arg EXCEPT ![t].cancelled = s.cancelled]
        /\ timerQ' = IF s.timer THEN timerQ ELSE WithoutTimer(t)
  /\ hist' = [hist EXCEPT ![t].events = Append(@, "cancel")]
  /\ UNCHANGED <<now, config, rateLimitInfo, mutexVars, mq, deadline, kind, op, pc, waitTime,
                 result, execVars, lastIssued>>

----------------------------------------------------------------------------
(* GitHubRateLimiter *)

\* try { ... } finally { release(); }: release runs on every way out of the try block
\* variant: release written at the end of the try block instead of in finally
FinallyRelease_OnReturnOnly(path) == path = "return"

FinallyRelease(path) == path \in {"return", "throw"}

\* the operation of t leaves its try block by `path` with outcome res; h is t's record so far.
\* Its caller is resumed one microtask later (executeWithRateLimiting awaits it).
ExitOp(t, res, path, h) ==
  LET rel == FinallyRelease(path)
      q == IF rel THEN MqAfterRelease(Tail(mq), t) ELSE Tail(mq)
  IN /\ locked' = IF rel THEN FALSE ELSE locked
     /\ locking' = IF rel THEN LockingAfterRelease(t) ELSE locking
     /\ owns' = IF rel THEN [owns EXCEPT ![t] = FALSE] ELSE owns
     /\ reactions' = IF rel THEN [reactions EXCEPT ![t] = <<>>] ELSE reactions
     /\ mq' = IF kind[t] = "exec" THEN Append(q, t) ELSE q
     /\ pc' = [pc EXCEPT ![t] = IF kind[t] = "exec" THEN "op_done" ELSE "done"]
     /\ result' = [result EXCEPT ![t] = res]
     /\ hist' = [hist EXCEPT ![t] = [h EXCEPT !.releases = @ + (IF rel THEN 1 ELSE 0)]]

\* setTimeout(resolve, w) and `await timeoutPromise`, the mutex still held
StartWait(t, w, h) ==
  /\ deadline' = [deadline EXCEPT ![t] = now + TimerDelay(w)]
  /\ timerQ' = Append(timerQ, t)
  /\ mq' = Tail(mq)
  /\ pc' = [pc EXCEPT ![t] = "waiting"]
  /\ hist' = [hist EXCEPT ![t] = [h EXCEPT !.timers = @ + 1]]
  /\ UNCHANGED <<mutexVars, result>>

\* variant: the buffer left out of the wait
CheckWaitTime_NoBuffer(info, cfg, n) == JsSub(info.resetTime, n)

\* checkRateLimit: waitTime = resetTime - now + resetBufferMs
CheckWaitTime(info, cfg, n) == JsAdd(JsSub(info.resetTime, n), cfg.resetBufferMs)

\* variant: the wait taken whatever remaining is
CheckDecision_AnyRemaining(info, cfg, n) ==
  IF ~cfg.enabled THEN "return"
  ELSE IF JsGt(JsAdd(JsSub(info.resetTime, n), cfg.resetBufferMs), 0)
       THEN IF JsGt(JsAdd(JsSub(info.resetTime, n), cfg.resetBufferMs), 60000)
            THEN "throw" ELSE "wait"
       ELSE "return"

\* variant: the ceiling of handleRateLimitExceeded (120000) used in checkRateLimit
CheckDecision_Ceiling120s(info, cfg, n) ==
  IF ~cfg.enabled THEN "return"
  ELSE IF JsLeq(info.remaining, cfg.minRemaining)
       THEN IF JsGt(JsAdd(JsSub(info.resetTime, n), cfg.resetBufferMs), 0)
            THEN IF JsGt(JsAdd(JsSub(info.resetTime, n), cfg.resetBufferMs), 120000)
                 THEN "throw" ELSE "wait"
            ELSE "return"
       ELSE "return"

\* checkRateLimit: the branch taken inside the try block
CheckDecision(info, cfg, n) ==
  IF ~cfg.enabled THEN "return"
  ELSE IF JsLeq(info.remaining, cfg.minRemaining)
       THEN IF JsGt(CheckWaitTime(info, cfg, n), 0)
            THEN IF JsGt(CheckWaitTime(info, cfg, n), 60000) THEN "throw" ELSE "wait"
            ELSE "return"
       ELSE "return"

Seen(info) ==
  [remaining |-> info.remaining, resetTime |-> info.resetTime, now |-> now]

\* checkRateLimit from the return of acquire() to its first await or its end
CheckCritical(t) ==
  /\ mq # <<>> /\ Head(mq) = t
  /\ pc[t] = "acquired" /\ op[t] = "check"
  /\ LET d == CheckDecision(rateLimitInfo, config, now)
         w == CheckWaitTime(rateLimitInfo, config, now)
         h == [hist[t] EXCEPT !.seen = Seen(rateLimitInfo)]
     IN CASE d = "return" ->
               /\ ExitOp(t, Returned, "return", h)
               /\ UNCHANGED <<timerVars, waitTime>>
          [] d = "throw" ->
               /\ ExitOp(t, CreateGithubApiError("rate limit exceeded, cannot proceed with request"),
                         "throw", h)
               /\ waitTime' = [waitTime EXCEPT ![t] = w]
               /\ UNCHANGED timerVars
          [] d = "wait" ->
               /\ StartWait(t, w, h)
               /\ waitTime' = [waitTime EXCEPT ![t] = w]
  /\ UNCHANGED <<now, config, rateLimitInfo, kind, op, arg, execVars, lastIssued>>

\* `if (retryAfter)`
Truthy(s) == s # Undefined /\ s # <<>>

\* variant: the retry-after value not looked at
HandleWaitTime_ResetOnly(retryAfter, info, cfg, n) ==
  IF JsGt(info.resetTime, n) THEN JsAdd(JsSub(info.resetTime, n), cfg.resetBufferMs)
  ELSE cfg.resetBufferMs

\* handleRateLimitExceeded: the wait it computes
HandleWaitTime(retryAfter, info, cfg, n) ==
  IF Truthy(retryAfter) THEN JsMul(ParseInt(retryAfter), 1000)
  ELSE IF JsGt(info.resetTime, n) THEN JsAdd(JsSub(info.resetTime, n), cfg.resetBufferMs)
  ELSE cfg.resetBufferMs

\* variant: the ceiling of checkRateLimit (60000) used in handleRateLimitExceeded
HandleDecision_Ceiling60s(w) == IF JsGt(w, 60000) THEN "throw" ELSE "wait"

\* handleRateLimitExceeded: the branch taken inside the try block
HandleDecision(w) == IF JsGt(w, 120000) THEN "throw" ELSE "wait"

\* handleRateLimitExceeded from the return of acquire() to its await or its throw
HandleCritical(t) ==
  /\ mq # <<>> /\ Head(mq) = t
  /\ pc[t] = "acquired" /\ op[t] = "handle"
  /\ LET w == HandleWaitTime(arg[t].retryAfter, rateLimitInfo, config, now)
         h == [hist[t] EXCEPT !.seen = Seen(rateLimitInfo)]
     IN /\ waitTime' = [waitTime EXCEPT ![t] = w]
        /\ IF HandleDecision(w) = "throw"
           THEN /\ ExitOp(t, CreateGithubApiError("rate limit exceeded, retry not possible"),
                          "throw", h)
                /\ UNCHANGED timerVars
           ELSE StartWait(t, w, h)
  /\ UNCHANGED <<now, config, rateLimitInfo, kind, op, arg, execVars, lastIssued>>

\* variant: checkRateLimit takes the window as renewed after its wait
AfterWait_ResetsRemaining(t) ==
  /\ mq # <<>> /\ Head(mq) = t
  /\ pc[t] = "woken" /\ op[t] \in {"check", "handle"}
  /\ ExitOp(t, Returned, "return", hist[t])
  /\ rateLimitInfo' = IF op[t] = "check"
                      THEN [rateLimitInfo EXCEPT !.remaining = rateLimitInfo.limit]
                      ELSE rateLimitInfo
  /\ UNCHANGED <<now, config, timerVars, kind, op, arg, waitTime, execVars, lastIssued>>

\* checkRateLimit / handleRateLimitExceeded after `await timeoutPromise`
AfterWait(t) ==
  /\ mq # <<>> /\ Head(mq) = t
  /\ pc[t] = "woken" /\ op[t] \in {"check", "handle"}
  /\ ExitOp(t, Returned, "return", hist[t])
  /\ UNCHANGED <<now, config, rateLimitInfo, timerVars, kind, op, arg, waitTime, execVars,
                 lastIssued>>

\* safelyUpdateRateLimitInfo after the return of acquire()
UpdateCritical(t) ==
  /\ mq # <<>> /\ Head(mq) = t
  /\ pc[t] = "acquired" /\ op[t] = "update"
  /\ rateLimitInfo' = arg[t]
  /\ ExitOp(t, Returned, "return", hist[t])
  /\ UNCHANGED <<now, config, timerVars, kind, op, arg, waitTime, execVars, lastIssued>>

\* variant: only the remaining header is required
HeadersComplete_RemainingOnly(h) == h.remaining # Undefined

\* updateRateLimitFromHeaders: all three headers are there
HeadersComplete(h) ==
  h.remaining # Undefined /\ h.reset # Undefined /\ h.limit # Undefined

\* updateRateLimitFromHeaders: newRateLimitInfo
NewRateLimitInfo(h) ==
  [remaining |-> ParseInt(h.remaining),
   resetTime |-> JsMul(ParseInt(h.reset), 1000),
   limit     |-> ParseInt(h.limit)]

----------------------------------------------------------------------------
(* Calls of the limiter's public methods *)

\* a caller calls checkRateLimit(): it runs up to `await this._locking`
InvokeCheck(t) ==
  /\ NextIdle(t)
  /\ Load + 1 <= MaxLoad
  /\ kind' = [kind EXCEPT ![t] = "check"]
  /\ op' = [op EXCEPT ![t] = "check"]
  /\ pc' = [pc EXCEPT ![t] = "acq_await"]
  /\ mq' = MqAfterAwaitLocking(mq, t)
  /\ reactions' = ReactionsAfterAwaitLocking(t)
  /\ hist' = [hist EXCEPT ![t] = FreshOp(@)]
  /\ UNCHANGED <<now, config, rateLimitInfo, locking, locked, owns, timerVars, arg, waitTime,
                 result, execVars, lastIssued>>

\* a caller calls handleRateLimitExceeded(retryAfter)
InvokeHandle(t, retryAfter) ==
  /\ NextIdle(t)
  /\ Load + 1 <= MaxLoad
  /\ kind' = [kind EXCEPT ![t] = "handle"]
  /\ op' = [op EXCEPT ![t] = "handle"]
  /\ arg' = [arg EXCEPT ![t] = [retryAfter |-> retryAfter]]
  /\ pc' = [pc EXCEPT ![t] = "acq_await"]
  /\ mq' = MqAfterAwaitLocking(mq, t)
  /\ reactions' = ReactionsAfterAwaitLocking(t)
  /\ hist' = [hist EXCEPT ![t] = FreshOp(@)]
  /\ UNCHANGED <<now, config, rateLimitInfo, locking, locked, owns, timerVars, waitTime,
                 result, execVars, lastIssued>>

\* a caller calls updateRateLimitFromHeaders(h): with all three headers it starts
\* safelyUpdateRateLimitInfo (not awaited), which runs up to `await this._locking`
InvokeUpdate(t, h) ==
  /\ NextIdle(t)
  /\ Load + 1 <= MaxLoad
  /\ kind' = [kind EXCEPT ![t] = "update"]
  /\ IF HeadersComplete(h)
     THEN /\ op' = [op EXCEPT ![t] = "update"]
          /\ arg' = [arg EXCEPT ![t] = NewRateLimitInfo(h)]
          /\ lastIssued' = NewRateLimitInfo(h)
          /\ pc' = [pc EXCEPT ![t] = "acq_await"]
          /\ mq' = MqAfterAwaitLocking(mq, t)
          /\ reactions' = ReactionsAfterAwaitLocking(t)
          /\ UNCHANGED result
     ELSE /\ pc' = [pc EXCEPT ![t] = "done"]
          /\ result' = [result EXCEPT ![t] = Returned]
          /\ UNCHANGED <<op, arg, lastIssued, mq, reactions>>
  /\ UNCHANGED <<now, config, rateLimitInfo, locking, locked, owns, timerVars, waitTime,
                 execVars, hist>>

----------------------------------------------------------------------------
(* GitHubService.executeWithRateLimiting *)
MAX_RETRY_ATTEMPTS == 3
BASE_RETRY_DELAY_MS == 1000

RECURSIVE Pow2(_)
Pow2(n) == IF n = 0 THEN 1 ELSE 2 * Pow2(n - 1)

\* the apiCall thunks of GitHubService return the mapped entity of response.data
MapperResponse(response) == [entity |-> response.data]

\* hasHeaders: the object has a property `headers`
HasHeaders(response) == "headers" \in DOMAIN response
ExtractResponseHeaders(response) == response.headers

\* isGitHubApiError: an object with a property `status` or `message`
IsGitHubApiError(error) == "status" \in DOMAIN error \/ "message" \in DOMAIN error

\* String.prototype.includes on a message given as its words
Includes(message, phrase) ==
  \E i \in 1..(Len(message) - Len(phrase) + 1) :
    SubSeq(message, i, i + Len(phrase) - 1) = phrase

StatusCode(error) ==
  IF IsGitHubApiError(error) /\ "status" \in DOMAIN error THEN error.status ELSE 0

IsRateLimitError(error) ==
  /\ IsGitHubApiError(error)
  /\ StatusCode(error) = 403
  /\ "message" \in DOMAIN error
  /\ Includes(error.message, <<"API", "rate", "limit", "exceeded">>)

\* variant: 429 not among the transient statuses
IsTransientError_No429(error) ==
  StatusCode(error) >= 500 \/ IsRateLimitError(error)

\* variant: every client error retried as well
IsTransientError_From400(error) ==
  StatusCode(error) >= 400 \/ IsRateLimitError(error)

IsTransientError(error) ==
  StatusCode(error) >= 500 \/ StatusCode(error) = 429 \/ IsRateLimitError(error)

\* variant: one retry more
ShouldRetry_Inclusive(error, count) == IsTransientError(error) /\ count <= MAX_RETRY_ATTEMPTS

\* variant: no failure is retried
ShouldRetry_Never(error, count) == FALSE

\* variant: every failure is retried while retries are left
ShouldRetry_AnyError(error, count) == count < MAX_RETRY_ATTEMPTS

\* `if (isTransientError && retryCount < MAX_RETRY_ATTEMPTS)`
ShouldRetry(error, count) == IsTransientError(error) /\ count < MAX_RETRY_ATTEMPTS

\* the delay computed after retryCount++
BackoffDelay(count) == BASE_RETRY_DELAY_MS * Pow2(count)

\* variant: the retry-after header not passed on
RetryAfterOf_Dropped(error) == Undefined

RetryAfterOf(error) ==
  IF IsGitHubApiError(error) /\ "response" \in DOMAIN error
  THEN error.response.headers.retryAfter ELSE Undefined

\* handleGitHubApiError
HandleGitHubApiError(error) == CreateGithubApiError("GitHub API error in operation")

\* variant: the loop starts with apiCall(), checkRateLimit is left out
CallCheckRateLimit_Skipped(t, q, h) ==
  /\ op' = [op EXCEPT ![t] = "call"]
  /\ pc' = [pc EXCEPT ![t] = "calling"]
  /\ mq' = q
  /\ reactions' = reactions
  /\ hist' = [hist EXCEPT ![t] = [h EXCEPT !.calls = @ + 1]]
  /\ result' = [result EXCEPT ![t] = NoResult]

\* the top of the loop: `await this.rateLimiter.checkRateLimit()` runs up to `await this._locking`
\* q is the microtask queue without the running continuation
CallCheckRateLimit(t, q, h) ==
  /\ op' = [op EXCEPT ![t] = "check"]
  /\ pc' = [pc EXCEPT ![t] = "acq_await"]
  /\ mq' = MqAfterAwaitLocking(q, t)
  /\ reactions' = ReactionsAfterAwaitLocking(t)
  /\ hist' = [hist EXCEPT ![t] = FreshOp(h)]
  /\ result' = [result EXCEPT ![t] = NoResult]

\* a GitHubService method calls executeWithRateLimiting
StartExec(t) ==
  /\ NextIdle(t)
  /\ kind' = [kind EXCEPT ![t] = "exec"]
  /\ retryCount' = [retryCount EXCEPT ![t] = 0]
  /\ CallCheckRateLimit(t, mq, hist[t])
  /\ UNCHANGED <<now, config, rateLimitInfo, locking, locked, owns, timerVars, arg, waitTime,
                 lastError, lastIssued>>

\* a facade call next to direct callers of the limiter
InvokeExec(t) == Load + ExecWeight <= MaxLoad /\ StartExec(t) /\ UNCHANGED domainOp

\* a facade call of the service on its own: domain operations are the only callers
InvokeService(t) == t <= MaxFacadeCalls /\ StartExec(t) /\ UNCHANGED domainOp

\* the catch block of executeWithRateLimiting for `error`
Catch(t, error) ==
  /\ lastError' = [lastError EXCEPT ![t] = error]
  /\ UNCHANGED domainOp
  /\ IF ShouldRetry(error, retryCount[t])
     THEN /\ retryCount' = [retryCount EXCEPT ![t] = @ + 1]
          /\ IF IsRateLimitError(error)
             THEN \* await this.rateLimiter.handleRateLimitExceeded(retryAfter)
                  /\ op' = [op EXCEPT ![t] = "handle"]
                  /\ arg' = [arg EXCEPT ![t] = [retryAfter |-> RetryAfterOf(error)]]
                  /\ pc' = [pc EXCEPT ![t] = "acq_await"]
                  /\ mq' = MqAfterAwaitLocking(Tail(mq), t)
                  /\ reactions' = ReactionsAfterAwaitLocking(t)
                  /\ hist' = [hist EXCEPT ![t] = [FreshOp(@) EXCEPT !.handles = @ + 1]]
                  /\ result' = [result EXCEPT ![t] = NoResult]
                  /\ UNCHANGED timerVars
             ELSE \* createSafeTimeout(delay); await timeout.promise
                  /\ op' = [op EXCEPT ![t] = "backoff"]
                  /\ pc' = [pc EXCEPT ![t] = "waiting"]
                  /\ deadline' = [deadline EXCEPT ![t] =
                                    now + TimerDelay(BackoffDelay(retryCount[t] + 1))]
                  /\ timerQ' = Append(timerQ, t)
                  /\ mq' = Tail(mq)
                  /\ hist' = [hist EXCEPT ![t].delays =
                                Append(@, BackoffDelay(retryCount[t] + 1))]
                  /\ result' = [result EXCEPT ![t] = NoResult]
                  /\ UNCHANGED <<arg, reactions>>
     ELSE \* throw this.handleGitHubApiError(error, operationName)
          /\ pc' = [pc EXCEPT ![t] = "done"]
          /\ op' = [op EXCEPT ![t] = "none"]
          /\ result' = [result EXCEPT ![t] = HandleGitHubApiError(error)]
          /\ mq' = Tail(mq)
          /\ UNCHANGED <<retryCount, arg, reactions, timerVars, hist>>

\* executeWithRateLimiting resumed after `await this.rateLimiter.checkRateLimit()`
ExecAfterCheck(t) ==
  /\ mq # <<>> /\ Head(mq) = t
  /\ pc[t] = "op_done" /\ op[t] = "check"
  /\ IF result[t].state = "returned"
     THEN \* apiCall() is invoked and awaited
          /\ pc' = [pc EXCEPT ![t] = "calling"]
          /\ op' = [op EXCEPT ![t] = "call"]
          /\ mq' = Tail(mq)
          /\ hist' = [hist EXCEPT ![t].calls = @ + 1]
          /\ result' = [result EXCEPT ![t] = NoResult]
          /\ UNCHANGED <<execVars, arg, reactions, timerVars>>
     ELSE Catch(t, result[t])
  /\ UNCHANGED <<now, config, rateLimitInfo, locking, locked, owns, kind, waitTime, lastIssued>>

\* the promise of apiCall() settles: octokit resolved and the thunk mapped the
\* response, or octokit rejected
ApiResolve(t, response) ==
  /\ mq = <<>>
  /\ pc[t] = "calling"
  /\ pc' = [pc EXCEPT ![t] = "call_done"]
  /\ result' = [result EXCEPT ![t] = [state |-> "returned", response |-> MapperResponse(response)]]
  /\ mq' = <<t>>
  /\ hist' = [hist EXCEPT ![t].statuses = @ \cup {200}]
  /\ UNCHANGED <<now, config, rateLimitInfo, mutexVars, timerVars, kind, op, arg, waitTime,
                 execVars, lastIssued>>

ApiReject(t, error) ==
  /\ mq = <<>>
  /\ pc[t] = "calling"
  /\ pc' = [pc EXCEPT ![t] = "call_done"]
  /\ result' = [result EXCEPT ![t] = error]
  /\ mq' = <<t>>
  /\ hist' = [hist EXCEPT ![t].statuses = @ \cup {StatusCode(error)}]
  /\ UNCHANGED <<now, config, rateLimitInfo, mutexVars, timerVars, kind, op, arg, waitTime,
                 execVars, lastIssued>>

\* executeWithRateLimiting resumed after `await apiCall()`
ExecAfterCall(t) ==
  /\ mq # <<>> /\ Head(mq) = t
  /\ pc[t] = "call_done"
  /\ IF result[t].state = "returned"
     THEN /\ IF HasHeaders(result[t].response)
                /\ HeadersComplete(ExtractResponseHeaders(result[t].response))
             THEN \* updateRateLimitFromHeaders starts safelyUpdateRateLimitInfo, not awaited
                  \E u \in Tasks :
                    /\ NextIdle(u)
                    /\ kind' = [kind EXCEPT ![u] = "update"]
                    /\ op' = [op EXCEPT ![t] = "none", ![u] = "update"]
                    /\ arg' = [arg EXCEPT ![u] =
                                 NewRateLimitInfo(ExtractResponseHeaders(result[t].response))]
                    /\ lastIssued' = NewRateLimitInfo(ExtractResponseHeaders(result[t].response))
                    /\ pc' = [pc EXCEPT ![t] = "done", ![u] = "acq_await"]
                    /\ mq' = MqAfterAwaitLocking(Tail(mq), u)
                    /\ reactions' = ReactionsAfterAwaitLocking(u)
             ELSE /\ pc' = [pc EXCEPT ![t] = "done"]
                  /\ op' = [op EXCEPT ![t] = "none"]
                  /\ mq' = Tail(mq)
                  /\ UNCHANGED <<kind, arg, lastIssued, reactions>>
          /\ UNCHANGED <<execVars, result, timerVars, hist>>
     ELSE /\ Catch(t, result[t])
          /\ UNCHANGED <<kind, lastIssued>>
  /\ UNCHANGED <<now, config, rateLimitInfo, locking, locked, owns, waitTime>>

\* executeWithRateLimiting resumed after `await timeout.promise`: `continue`
ExecAfterBackoff(t) ==
  /\ mq # <<>> /\ Head(mq) = t
  /\ pc[t] = "woken" /\ op[t] = "backoff"
  /\ CallCheckRateLimit(t, Tail(mq), hist[t])
  /\ UNCHANGED <<now, config, rateLimitInfo, locking, locked, owns, timerVars, kind, arg,
                 waitTime, execVars, lastIssued>>

\* executeWithRateLimiting resumed after `await this.rateLimiter.handleRateLimitExceeded()`:
\* `continue`, or the error thrown inside the catch block leaves the method
ExecAfterHandle(t) ==
  /\ mq # <<>> /\ Head(mq) = t
  /\ pc[t] = "op_done" /\ op[t] = "handle"
  /\ IF result[t].state = "returned"
     THEN CallCheckRateLimit(t, Tail(mq), hist[t])
     ELSE /\ pc' = [pc EXCEPT ![t] = "done"]
          /\ op' = [op EXCEPT ![t] = "none"]
          /\ mq' = Tail(mq)
          /\ UNCHANGED <<reactions, hist, result>>
  /\ UNCHANGED <<now, config, rateLimitInfo, locking, locked, owns, timerVars, kind, arg,
                 waitTime, execVars, lastIssued>>

----------------------------------------------------------------------------
(* Domain operations *)

\* variant: no catch block, the failure is passed on as it is
DomainResult_Rethrow(f, outcome) ==
  IF outcome.state = "returned" THEN CreateSuccessResult(outcome.response) ELSE outcome

\* what the operation returns for the outcome of its GitHubService call
DomainResult(f, outcome) ==
  IF outcome.state = "returned"
  THEN CreateSuccessResult(outcome.response)
  ELSE IF f = "createRepositoryIssue"
       THEN CreateFailureResult(CreateGithubApiError("Failed to create repository issue"))
       ELSE CreateFailureResult(
              WrapExceptionAsStandardizedError(outcome, "Failed to retrieve repository"))

\* createRepositoryIssue(payload) / getRepositoryByOwnerAndName(parameters) is called:
\* getRepositoryByOwnerAndName returns the validation failure of invalid parameters at
\* once; otherwise the GitHubService method runs up to its first await
InvokeDomainOp(t, f, valid) ==
  /\ Cardinality({u \in Tasks : domainOp[u] # "none"}) < MaxDomainCalls
  /\ domainOp' = [domainOp EXCEPT ![t] = f]
  /\ IF f = "getRepositoryByOwnerAndName" /\ ~valid
     THEN /\ NextIdle(t)
          /\ kind' = [kind EXCEPT ![t] = "domain"]
          /\ pc' = [pc EXCEPT ![t] = "returned"]
          /\ result' = [result EXCEPT ![t] =
                          [state |-> "returned",
                           value |-> CreateFailureResult(
                                       CreateValidationError("Input validation failed"))]]
          /\ UNCHANGED <<now, config, rateLimitInfo, mutexVars, mq, timerVars, op, arg,
                         waitTime, retryCount, lastError, hist, lastIssued>>
     ELSE /\ Load + ExecWeight <= MaxLoad
          /\ StartExec(t)

\* the operation resumed after `await githubService.createIssue / getRepository`: its
\* return statement or its catch block; it touches nothing but its own result
DomainReturn(t) ==
  /\ domainOp[t] # "none"
  /\ pc[t] = "done"
  /\ pc' = [pc EXCEPT ![t] = "returned"]
  /\ result' = [result EXCEPT ![t] =
                  [state |-> "returned", value |-> DomainResult(domainOp[t], result[t])]]
  /\ UNCHANGED <<now, config, rateLimitInfo, mutexVars, mq, timerVars, kind, op, arg, waitTime,
                 execVars, hist, lastIssued>>

----------------------------------------------------------------------------
Next ==
  \/ \E t \in Tasks : InvokeCheck(t)
  \/ \E t \in Tasks : \E ra \in RetryAfters : InvokeHandle(t, ra)
  \/ \E t \in Tasks : \E h \in HeaderSets : InvokeUpdate(t, h)
  \/ \E t \in Tasks : AcquireBody(t)
  \/ \E t \in Tasks : CheckCritical(t)
  \/ \E t \in Tasks : HandleCritical(t)
  \/ \E t \in Tasks : UpdateCritical(t)
  \/ \E t \in Tasks : AfterWait(t)
  \/ \E t \in Tasks : TimerFire(t)
  \/ Elapse
  \/ \E t \in Tasks : InvokeExec(t)
  \/ \E t \in Tasks : ExecAfterCheck(t)
  \/ \E t \in Tasks : \E r \in OctokitResponses : ApiResolve(t, r)
  \/ \E t \in Tasks : \E e \in ApiErrors : ApiReject(t, e)
  \/ \E t \in Tasks : ExecAfterCall(t)
  \/ \E t \in Tasks : ExecAfterBackoff(t)
  \/ \E t \in Tasks : ExecAfterHandle(t)

Spec == Init /\ [][Next]_vars

\* the service as the repository uses it: every call of the limiter comes from a facade call
NextService ==
  \/ \E t \in Tasks : InvokeService(t)
  \/ \E t \in Tasks : AcquireBody(t)
  \/ \E t \in Tasks : CheckCritical(t)
  \/ \E t \in Tasks : HandleCritical(t)
  \/ \E t \in Tasks : AfterWait(t)
  \/ \E t \in Tasks : TimerFire(t)
  \/ Elapse
  \/ \E t \in Tasks : ExecAfterCheck(t)
  \/ \E t \in Tasks : \E r \in OctokitResponses : ApiResolve(t, r)
  \/ \E t \in Tasks : \E e \in ApiErrors : ApiReject(t, e)
  \/ \E t \in Tasks : ExecAfterCall(t)
  \/ \E t \in Tasks : ExecAfterBackoff(t)
  \/ \E t \in Tasks : ExecAfterHandle(t)

SpecService == Init /\ [][NextService]_vars

\* one domain operation next to header updates, with every kind of failure of the remote call
NextDomain ==
  \/ \E t \in Tasks : \E f \in DomainOps : \E valid \in BOOLEAN : InvokeDomainOp(t, f, valid)
  \/ \E t \in Tasks : \E h \in CompleteHeaders : InvokeUpdate(t, h)
  \/ \E t \in Tasks : AcquireBody(t)
  \/ \E t \in Tasks : CheckCritical(t)
  \/ \E t \in Tasks : HandleCritical(t)
  \/ \E t \in Tasks : UpdateCritical(t)
  \/ \E t \in Tasks : AfterWait(t)
  \/ \E t \in Tasks : TimerFire(t)
  \/ Elapse
  \/ \E t \in Tasks : ExecAfterCheck(t)
  \/ \E t \in Tasks : \E r \in OctokitResponses : ApiResolve(t, r)
  \/ \E t \in Tasks : \E e \in DomainApiErrors : ApiReject(t, e)
  \/ \E t \in Tasks : ExecAfterCall(t)
  \/ \E t \in Tasks : ExecAfterBackoff(t)
  \/ \E t \in Tasks : ExecAfterHandle(t)
  \/ \E t \in Tasks : DomainReturn(t)

SpecDomain == Init /\ [][NextDomain]_vars

\* the event loop runs the continuation at the head of the microtask queue
LimiterMicrotask ==
  \E t \in Tasks :
    \/ AcquireBody(t)
    \/ CheckCritical(t)
    \/ HandleCritical(t)
    \/ UpdateCritical(t)
    \/ AfterWait(t)

\* the limiter with direct callers only; every queued continuation is run and every
\* started timer fires
NextMutex ==
  \/ \E t \in 1..MaxMutexCallers : InvokeCheck(t)
  \/ \E t \in 1..MaxMutexCallers : \E ra \in RetryAfters : InvokeHandle(t, ra)
  \/ \E t \in 1..MaxMutexCallers : \E h \in CompleteHeaders : InvokeUpdate(t, h)
  \/ \E t \in Tasks : AcquireBody(t)
  \/ \E t \in Tasks : CheckCritical(t)
  \/ \E t \in Tasks : HandleCritical(t)
  \/ \E t \in Tasks : UpdateCritical(t)
  \/ \E t \in Tasks : AfterWait(t)
  \/ \E t \in Tasks : TimerFire(t)
  \/ Elapse

SpecMutex ==
  /\ Init /\ [][NextMutex]_vars
  /\ WF_vars(LimiterMicrotask)
  /\ WF_vars(\E t \in Tasks : TimerFire(t))

\* the continuations of the limiter and of executeWithRateLimiting
FacadeMicrotask ==
  \/ LimiterMicrotask
  \/ \E t \in Tasks : ExecAfterCheck(t) \/ ExecAfterCall(t) \/ ExecAfterBackoff(t) \/ ExecAfterHandle(t)

\* the promise of a remote call settles
ApiSettle ==
  \E t \in Tasks :
    \/ \E r \in OctokitResponses : ApiResolve(t, r)
    \/ \E e \in ApiErrors : ApiReject(t, e)

\* concurrent facade calls of one service; every queued continuation is run, every
\* started timer fires and every remote call settles
NextFacade ==
  \/ \E t \in Tasks : InvokeService(t)
  \/ \E t \in Tasks : AcquireBody(t)
  \/ \E t \in Tasks : CheckCritical(t)
  \/ \E t \in Tasks : HandleCritical(t)
  \/ \E t \in Tasks : AfterWait(t)
  \/ \E t \in Tasks : TimerFire(t)
  \/ \E t \in Tasks : ExecAfterCheck(t)
  \/ \E t \in Tasks : \E r \in OctokitResponses : ApiResolve(t, r)
  \/ \E t \in Tasks : \E e \in ApiErrors : ApiReject(t, e)
  \/ \E t \in Tasks : ExecAfterCall(t)
  \/ \E t \in Tasks : ExecAfterBackoff(t)
  \/ \E t \in Tasks : ExecAfterHandle(t)

\* the service constructed with one configuration of the limiter
InitFacade == Init /\ config.enabled /\ config.resetBufferMs = 500

SpecFacade ==
  /\ InitFacade
  /\ [][NextFacade]_vars
  /\ WF_vars(FacadeMicrotask)
  /\ WF_vars(\E t \in Tasks : TimerFire(t))
  /\ WF_vars(ApiSettle)

----------------------------------------------------------------------------
(* withRetry *)
\* retryOptions: maxRetries, baseDelayMs, shouldRetry; onRetry is not given
RetryMaxRetries == {0, 1, 2}
RetryBaseDelays == {100, 1000}
\* shouldRetry: left out (the default `() => true`) or a test of the error's status
RetryPredicates == {"default", "serverErrors"}
RetryOptions ==
  [maxRetries : RetryMaxRetries, baseDelayMs : RetryBaseDelays, shouldRetry : RetryPredicates]

\* what operation() resolves with / rejects with
OperationValues == {[state |-> "returned", value |-> "value"]}
OperationErrors ==
  { ApiError(500, <<"Server", "Error">>, Undefined),
    ApiError(400, <<"Validation", "Failed">>, Undefined) }

\* shouldRetry(error)
ShouldRetryError(predicate, error) ==
  IF predicate = "default" THEN TRUE ELSE error.status >= 500

\* variant: the delay of the attempt to come
WithRetryDelay_NextAttempt(baseDelayMs, attempt) == baseDelayMs * Pow2(attempt + 1)

\* `baseDelayMs * Math.pow(2, attempt)`
WithRetryDelay(baseDelayMs, attempt) == baseDelayMs * Pow2(attempt)

\* `attempt < maxRetries && shouldRetry(error)`
WithRetryRetries(options, attempt, error) ==
  attempt < options.maxRetries /\ ShouldRetryError(options.shouldRetry, error)

\* withRetry(operation, retryOptions) is called: attempt = 0, `await operation()`
InvokeWithRetry(t, options) ==
  /\ NextIdle(t)
  /\ t <= MaxRetryCalls
  /\ kind' = [kind EXCEPT ![t] = "retry"]
  /\ op' = [op EXCEPT ![t] = "call"]
  /\ pc' = [pc EXCEPT ![t] = "calling"]
  /\ arg' = [arg EXCEPT ![t] = options]
  /\ retryCount' = [retryCount EXCEPT ![t] = 0]
  /\ hist' = [hist EXCEPT ![t] = [NoHist EXCEPT !.calls = 1]]
  /\ result' = [result EXCEPT ![t] = NoResult]
  /\ UNCHANGED <<now, config, rateLimitInfo, mutexVars, mq, timerVars, waitTime, lastError,
                 domainOp, lastIssued>>

\* the promise of operation() settles
OperationSettle(t, outcome) ==
  /\ mq = <<>>
  /\ kind[t] = "retry" /\ pc[t] = "calling"
  /\ pc' = [pc EXCEPT ![t] = "call_done"]
  /\ result' = [result EXCEPT ![t] = outcome]
  /\ mq' = <<t>>
  /\ hist' = [hist EXCEPT ![t].statuses =
                @ \cup {IF outcome.state = "returned" THEN 200 ELSE outcome.status}]
  /\ UNCHANGED <<now, config, rateLimitInfo, mutexVars, timerVars, kind, op, arg, waitTime,
                 execVars, lastIssued>>

\* withRetry resumed after `await operation()`: return, retry after a delay, or throw
RetryAfterOperation(t) ==
  /\ mq # <<>> /\ Head(mq) = t
  /\ kind[t] = "retry" /\ pc[t] = "call_done"
  /\ mq' = Tail(mq)
  /\ IF result[t].state = "returned"
     THEN /\ pc' = [pc EXCEPT ![t] = "done"]
          /\ op' = [op EXCEPT ![t] = "none"]
          /\ UNCHANGED <<result, lastError, timerVars, hist>>
     ELSE /\ lastError' = [lastError EXCEPT ![t] = result[t]]
          /\ IF WithRetryRetries(arg[t], retryCount[t], result[t])
             THEN LET delay == WithRetryDelay(arg[t].baseDelayMs, retryCount[t])
                  IN /\ pc' = [pc EXCEPT ![t] = "waiting"]
                     /\ op' = [op EXCEPT ![t] = "backoff"]
                     /\ deadline' = [deadline EXCEPT ![t] = now + TimerDelay(delay)]
                     /\ timerQ' = Append(timerQ, t)
                     /\ hist' = [hist EXCEPT ![t].delays = Append(@, delay)]
                     /\ result' = [result EXCEPT ![t] = NoResult]
             ELSE \* throw lastError
                  /\ pc' = [pc EXCEPT ![t] = "done"]
                  /\ op' = [op EXCEPT ![t] = "none"]
                  /\ UNCHANGED <<result, timerVars, hist>>
  /\ UNCHANGED <<now, config, rateLimitInfo, mutexVars, kind, arg, waitTime, retryCount,
                 domainOp, lastIssued>>

\* withRetry resumed after `await timeout.promise`: continue, attempt++, operation()
RetryAfterDelay(t) ==
  /\ mq # <<>> /\ Head(mq) = t
  /\ kind[t] = "retry" /\ pc[t] = "woken"
  /\ mq' = Tail(mq)
  /\ retryCount' = [retryCount EXCEPT ![t] = @ + 1]
  /\ IF retryCount[t] + 1 <= arg[t].maxRetries
     THEN /\ pc' = [pc EXCEPT ![t] = "calling"]
          /\ op' = [op EXCEPT ![t] = "call"]
          /\ hist' = [hist EXCEPT ![t].calls = @ + 1]
          /\ UNCHANGED result
     ELSE \* the throw after the loop
          /\ pc' = [pc EXCEPT ![t] = "done"]
          /\ op' = [op EXCEPT ![t] = "none"]
          /\ result' = [result EXCEPT ![t] = lastError[t]]
          /\ UNCHANGED hist
  /\ UNCHANGED <<now, config, rateLimitInfo, mutexVars, timerVars, kind, arg, waitTime,
                 lastError, domainOp, lastIssued>>

\* calls of withRetry with their operations and timers
NextRetry ==
  \/ \E t \in Tasks : \E o \in RetryOptions : InvokeWithRetry(t, o)
  \/ \E t \in Tasks : \E x \in OperationValues \cup OperationErrors : OperationSettle(t, x)
  \/ \E t \in Tasks : RetryAfterOperation(t)
  \/ \E t \in Tasks : TimerFire(t)
  \/ \E t \in Tasks : RetryAfterDelay(t)
  \/ Elapse

SpecRetry == Init /\ [][NextRetry]_vars

\* the limiter fed with headers of any content next to callers of checkRateLimit
NextHeaders ==
  \/ \E t \in Tasks : InvokeCheck(t)
  \/ \E t \in Tasks : \E h \in HeaderSets \cup MalformedHeaders : InvokeUpdate(t, h)
  \/ \E t \in Tasks : AcquireBody(t)
  \/ \E t \in Tasks : CheckCritical(t)
  \/ \E t \in Tasks : UpdateCritical(t)
  \/ \E t \in Tasks : AfterWait(t)
  \/ \E t \in Tasks : TimerFire(t)
  \/ Elapse

SpecHeaders == Init /\ [][NextHeaders]_vars

\* createSafeTimeout objects in the hands of their holders; the event loop runs a due timer
NextTimeout ==
  \/ \E t \in Tasks : \E ms \in SafeTimeoutDelays : CreateSafeTimeout(t, ms)
  \/ \E t \in Tasks : SafeTimeoutCallback(t)
  \/ \E t \in Tasks : CancelSafeTimeout(t)
  \/ Elapse

SpecTimeout ==
  Init /\ [][NextTimeout]_vars /\ WF_vars(\E t \in Tasks : SafeTimeoutCallback(t))

----------------------------------------------------------------------------
(* Properties *)

\* t is inside a critical section: its acquire() has returned to it and it has not
\* invoked its release callback (it is in the wait of checkRateLimit or handleRateLimitExceeded)
InCriticalSection(t) ==
  op[t] \in {"check", "handle", "update"} /\ pc[t] \in {"waiting", "woken"}

\* t is executing a limiter operation / t's limiter operation has ended
InOp(t) ==
  \/ pc[t] \in {"acq_await", "acquired"}
  \/ InCriticalSection(t)
OpEnded(t) ==
  \/ pc[t] = "op_done"
  \/ (pc[t] = "done" /\ kind[t] # "exec" /\ op[t] # "none")

\* C1: at most one caller is ever inside a critical section of the mutex: the number
\* of callers that entered and have not released never exceeds 1
C1_AtMostOneInCriticalSection ==
  Cardinality({t \in Tasks : InCriticalSection(t)}) <= 1

\* C2: in checkRateLimit, safelyUpdateRateLimitInfo and handleRateLimitExceeded the
\* release callback is invoked exactly once on every exit path: not before the
\* operation leaves its try block, once when it has ended, and the promise the
\* operation made in acquire() is resolved when it ends
C2_ReleasedExactlyOnce ==
  \A t \in Tasks :
    /\ InOp(t) => hist[t].releases = 0
    /\ OpEnded(t) => (hist[t].releases = 1 /\ ~owns[t])

\* both fail-fast throws and a return after a wait have happened
C2_Witness ==
  \E a, b, c \in Tasks :
    /\ kind[a] = "check" /\ pc[a] = "done" /\ result[a].state = "thrown"
    /\ kind[b] = "handle" /\ pc[b] = "done" /\ result[b].state = "thrown"
    /\ kind[c] = "handle" /\ pc[c] = "done" /\ result[c].state = "returned"
    /\ hist[c].timers = 1

C4_CheckWaitIsResetPlusBuffer ==
  \A t \in Tasks :
    (config.enabled /\ op[t] = "check" /\ hist[t].seen # NoArg
       /\ hist[t].seen.remaining <= config.minRemaining)
      => LET w == hist[t].seen.resetTime - hist[t].seen.now + config.resetBufferMs
         IN /\ w <= 0 => /\ hist[t].timers = 0
                         /\ pc[t] \in {"done", "op_done"}
                         /\ result[t].state = "returned"
            /\ (0 < w /\ w <= 60000) =>
                 /\ hist[t].timers = 1
                 /\ deadline[t] = hist[t].seen.now + w
                 /\ pc[t] \in {"waiting", "woken", "done", "op_done"}
                 /\ pc[t] # "waiting" => now >= hist[t].seen.now + w

\* remaining 10, resetTime now+2000, minRemaining 50, resetBufferMs 500: a wait of 2500 ms
C4_Witness ==
  \E t \in Tasks :
    /\ config.enabled /\ config.minRemaining = 50 /\ config.resetBufferMs = 500
    /\ op[t] = "check" /\ pc[t] = "waiting"
    /\ hist[t].seen # NoArg
    /\ hist[t].seen.remaining = 10
    /\ hist[t].seen.resetTime = hist[t].seen.now + 2000
    /\ deadline[t] - hist[t].seen.now = 2500

FailedFast(t) ==
  /\ pc[t] \in {"done", "op_done"}
  /\ result[t].state = "thrown"
  /\ result[t].errorCategory = "GITHUB_API"
  /\ hist[t].timers = 0
  /\ ~owns[t]

\* C5 (as claimed): when remaining <= minRemaining and resetTime - now + resetBufferMs
\* > 60000, checkRateLimit throws a GITHUB_API error, starts no timer and has released
C5_FailFastAbove60s ==
  \A t \in Tasks :
    (op[t] = "check" /\ hist[t].seen # NoArg
       /\ hist[t].seen.remaining <= config.minRemaining
       /\ hist[t].seen.resetTime - hist[t].seen.now + config.resetBufferMs > 60000)
      => FailedFast(t)

\* C5 (amended): the same when rate limiting is enabled
C5_FailFastAbove60sWhenEnabled ==
  \A t \in Tasks :
    (config.enabled /\ op[t] = "check" /\ hist[t].seen # NoArg
       /\ hist[t].seen.remaining <= config.minRemaining
       /\ hist[t].seen.resetTime - hist[t].seen.now + config.resetBufferMs > 60000)
      => FailedFast(t)

C5_Witness ==
  \E t \in Tasks :
    /\ config.enabled /\ kind[t] = "check" /\ FailedFast(t)
    /\ hist[t].seen.remaining <= config.minRemaining
    /\ hist[t].seen.resetTime - hist[t].seen.now + config.resetBufferMs > 60000
    /\ ~locked

UpdateInFlight == \E t \in Tasks : op[t] = "update" /\ pc[t] # "done"

\* C6: once all issued updates have been applied, the state is the record of the
\* most recently issued updateRateLimitFromHeaders call with a complete triple
C6_LastWriteWins ==
  (lastIssued # NoArg /\ ~UpdateInFlight) => rateLimitInfo = lastIssued

\* the states the headers can produce
WholeRecords == {InitialInfo} \cup {NewRateLimitInfo(h) : h \in CompleteHeaders}

\* updateRateLimitFromHeaders has returned on a header set with a header missing
PartialCallDone(t) == kind[t] = "update" /\ pc[t] = "done" /\ op[t] = "none"

\* C7: updateRateLimitFromHeaders with a header missing leaves RateLimitState (and
\* everything else of the limiter) as it is and starts no update; the state is always
\* the initial record or the record of one complete header set, never a mixture
C7_PartialHeadersChangeNothing ==
  /\ [](rateLimitInfo \in WholeRecords)
  /\ [][\A t \in Tasks :
          (~PartialCallDone(t) /\ PartialCallDone(t)')
            => /\ rateLimitInfo' = rateLimitInfo
               /\ lastIssued' = lastIssued
               /\ arg' = arg
               /\ mq' = mq /\ reactions' = reactions
               /\ UNCHANGED mutexVars]_vars

C7_Witness ==
  \E t, u \in Tasks :
    /\ PartialCallDone(t)
    /\ kind[u] = "update" /\ op[u] = "update" /\ pc[u] = "done"
    /\ t > u
    /\ rateLimitInfo = arg[u] /\ rateLimitInfo # InitialInfo

\* C8: with MAX_RETRY_ATTEMPTS = 3 and a call that always fails with status 500, the
\* executor invokes the call exactly 4 times and then throws one error
C8_FourAttemptsOn500 ==
  \A t \in Tasks :
    (kind[t] = "exec" /\ hist[t].statuses = {500})
      => /\ hist[t].calls <= MAX_RETRY_ATTEMPTS + 1
         /\ pc[t] = "done" => /\ hist[t].calls = 4
                              /\ result[t].state = "thrown"
         /\ (hist[t].calls < 4 /\ pc[t] # "call_done") => pc[t] # "done"

C8_Witness ==
  \E t \in Tasks :
    /\ kind[t] = "exec" /\ pc[t] = "done" /\ hist[t].statuses = {500}
    /\ hist[t].calls = 4 /\ result[t].state = "thrown"

\* C9: with a call that always fails with status 500, the backoff waits between the
\* attempts are BASE_RETRY_DELAY_MS, 2 * BASE_RETRY_DELAY_MS, 4 * BASE_RETRY_DELAY_MS
C9_BackoffFromBaseDelay ==
  \A t \in Tasks :
    (kind[t] = "exec" /\ pc[t] = "done" /\ hist[t].statuses = {500})
      => hist[t].delays =
           <<BASE_RETRY_DELAY_MS, 2 * BASE_RETRY_DELAY_MS, 4 * BASE_RETRY_DELAY_MS>>

\* C10: when the call fails with status 400 the executor has invoked it once, starts
\* no backoff timer and no rate-limit wait, and throws a GITHUB_API error
C10_TerminalErrorNoRetry ==
  \A t \in Tasks :
    (kind[t] = "exec" /\ hist[t].statuses = {400})
      => /\ hist[t].calls = 1
         /\ hist[t].delays = <<>> /\ hist[t].handles = 0 /\ hist[t].timers = 0
         /\ pc[t] \in {"call_done", "done"}
         /\ pc[t] = "done" => /\ result[t].state = "thrown"
                              /\ result[t].shape = "standardized"
                              /\ result[t].errorCategory = "GITHUB_API"

C10_Witness ==
  \E t \in Tasks :
    /\ kind[t] = "exec" /\ pc[t] = "done" /\ hist[t].statuses = {400}
    /\ result[t].state = "thrown" /\ result[t].errorCategory = "GITHUB_API"
    /\ hist[t].calls = 1


\* the 403 "API rate limit exceeded" failure as the specification words it
QuotaExceeded(error) ==
  /\ "status" \in DOMAIN error /\ error.status = 403
  /\ "message" \in DOMAIN error
  /\ Includes(error.message, <<"API", "rate", "limit", "exceeded">>)

Has(events, e) == \E i \in 1..Len(events) : events[i] = e
Count(events, e) == Len(SelectSeq(events, LAMBDA x : x = e))
IsSafeTimeout(t) == kind[t] = "timeout"

\* C12: a createSafeTimeout(d) promise is resolved at most once, only by its timer
\* firing after d ms with no cancel before it, and is never rejected; once cancel was
\* called before the firing the promise stays pending for ever; and one of the two
\* (resolved, cancelled before firing) does happen
C12_ResolvesOrCancelled ==
  /\ [](\A t \in Tasks :
          IsSafeTimeout(t)
            => /\ result[t].state \in {"pending", "returned"}
               /\ Count(hist[t].events, "resolve") <= 1
               /\ result[t].state = "returned" <=> Has(hist[t].events, "resolve")
               /\ Has(hist[t].events, "resolve")
                    => /\ now >= hist[t].seen.now + arg[t].ms
                       /\ \E i \in 1..Len(hist[t].events) :
                            /\ hist[t].events[i] = "resolve"
                            /\ \A j \in 1..(i - 1) : hist[t].events[j] # "cancel"
               /\ (hist[t].events # <<>> /\ Head(hist[t].events) = "cancel")
                    => (result[t].state = "pending" /\ ~Has(hist[t].events, "resolve")))
  /\ \A t \in Tasks :
       IsSafeTimeout(t)
         ~> (IsSafeTimeout(t) /\ (result[t].state = "returned" \/ arg[t].cancelled))

\* a timeout cancelled in time stays pending after its time has passed, another has resolved
C12_Witness ==
  \E t, u \in Tasks :
    /\ IsSafeTimeout(t) /\ IsSafeTimeout(u)
    /\ Head(hist[t].events \o <<"none">>) = "cancel" /\ result[t].state = "pending"
    /\ now >= hist[t].seen.now + TimerDelay(arg[t].ms)
    /\ result[u].state = "returned" /\ ~arg[u].cancelled

\* C13: every cancel after the first changes nothing, a cancel after the firing leaves
\* the resolved promise resolved, and after the firing or the first cancel the
\* setTimeout of the timeout is no longer pending
C13_CancelIdempotent ==
  /\ [](\A t \in Tasks :
          (IsSafeTimeout(t) /\ hist[t].events # <<>>) => ~InTimerQ(t))
  /\ [][\A t \in Tasks :
          (IsSafeTimeout(t) /\ Count(hist'[t].events, "cancel") > Count(hist[t].events, "cancel"))
            => /\ result' = result
               /\ deadline' = deadline /\ now' = now /\ mq' = mq
               /\ arg'[t].cancelled
               /\ ~InTimerQ(t)'
               /\ Has(hist[t].events, "cancel") => (arg' = arg /\ timerQ' = timerQ)
               /\ Has(hist[t].events, "resolve")
                    => (result'[t].state = "returned" /\ timerQ' = timerQ)]_vars

\* cancel called three times before the firing, and cancel called after the firing
C13_Witness ==
  \E t, u \in Tasks :
    /\ IsSafeTimeout(t) /\ hist[t].events = <<"cancel", "cancel", "cancel">>
    /\ IsSafeTimeout(u) /\ hist[u].events = <<"resolve", "cancel">>
    /\ result[u].state = "returned"


\* t's handleRateLimitExceeded has computed its wait
HandleComputed(t) == op[t] = "handle" /\ hist[t].seen # NoArg

\* C14: handleRateLimitExceeded throws a GITHUB_API error without a timer exactly when
\* the wait it computed exceeds 120000 ms; for a wait of at most 120000 ms it starts one
\* timer of that wait, returns only after it, and in both cases has released the mutex
C14_HandleCeiling120s ==
  \A t \in Tasks :
    HandleComputed(t)
      => /\ waitTime[t] > 120000
              => /\ FailedFast(t)
                 /\ hist[t].releases = 1
         /\ waitTime[t] <= 120000
              => /\ hist[t].timers = 1
                 /\ deadline[t] = hist[t].seen.now + TimerDelay(waitTime[t])
                 /\ pc[t] \in {"waiting", "woken", "done", "op_done"}
                 /\ pc[t] \in {"done", "op_done"}
                      => /\ result[t].state = "returned"
                         /\ now >= hist[t].seen.now + waitTime[t]
                         /\ hist[t].releases = 1 /\ ~owns[t]

\* one call failed fast, another returned after a wait between the two ceilings
C14_Witness ==
  \E a, b \in Tasks :
    /\ kind[a] = "handle" /\ HandleComputed(a) /\ FailedFast(a) /\ waitTime[a] > 120000
    /\ kind[b] = "handle" /\ HandleComputed(b) /\ pc[b] = "done"
    /\ result[b].state = "returned"
    /\ waitTime[b] > 60000 /\ waitTime[b] <= 120000
    /\ now >= hist[b].seen.now + waitTime[b]


\* C15: the wait handleRateLimitExceeded(retryAfter) computes is retryAfter * 1000 when a
\* retry-after value is supplied (5000 for "5"); without one it is resetTime - now +
\* resetBufferMs when the stored resetTime is in the future, and resetBufferMs otherwise
C15_HandleWaitSources ==
  \A t \in Tasks :
    HandleComputed(t)
      => /\ arg[t].retryAfter = <<"5">> => waitTime[t] = 5 * 1000
         /\ (arg[t].retryAfter = Undefined /\ hist[t].seen.resetTime > hist[t].seen.now)
              => waitTime[t] = hist[t].seen.resetTime - hist[t].seen.now + config.resetBufferMs
         /\ (arg[t].retryAfter = Undefined /\ hist[t].seen.resetTime <= hist[t].seen.now)
              => waitTime[t] = config.resetBufferMs

\* the three sources of the wait, each used by one call
C15_Witness ==
  \E a, b, c \in Tasks :
    /\ HandleComputed(a) /\ arg[a].retryAfter = <<"5">> /\ waitTime[a] = 5000
    /\ hist[a].seen.resetTime > hist[a].seen.now
    /\ HandleComputed(b) /\ arg[b].retryAfter = Undefined
    /\ hist[b].seen.resetTime > hist[b].seen.now
    /\ waitTime[b] = hist[b].seen.resetTime - hist[b].seen.now + config.resetBufferMs
    /\ HandleComputed(c) /\ arg[c].retryAfter = Undefined
    /\ hist[c].seen.resetTime <= hist[c].seen.now
    /\ waitTime[c] = config.resetBufferMs


\* transient as the specification words it
TransientAsSpecified(error) ==
  \/ "status" \in DOMAIN error /\ (error.status >= 500 \/ error.status = 429)
  \/ QuotaExceeded(error)

\* executeWithRateLimiting leaves its `await` with the failure result[t]
Caught(t) ==
  /\ kind[t] = "exec"
  /\ result[t].state = "thrown"
  /\ \/ pc[t] = "call_done"
     \/ pc[t] = "op_done" /\ op[t] = "check"

\* C16: a failure is retried exactly if its status is >= 500 or 429, or it is a 403
\* with "API rate limit exceeded" in its message, and retries are left; any other failure
\* (no status, a plain 403, a 4xx) ends the call with an error and is never retried
C16_TransientClassification ==
  [][\A t \in Tasks :
       (Caught(t) /\ pc'[t] # pc[t])
         => /\ (TransientAsSpecified(result[t]) /\ retryCount[t] < MAX_RETRY_ATTEMPTS)
                 => /\ retryCount'[t] = retryCount[t] + 1
                    /\ pc'[t] \in {"acq_await", "waiting"}
            /\ ~TransientAsSpecified(result[t])
                 => /\ retryCount'[t] = retryCount[t]
                    /\ pc'[t] = "done"
                    /\ result'[t].state = "thrown"
                    /\ hist'[t] = hist[t]
                    /\ ~InTimerQ(t)']_vars

\* a 429 was retried, then an Error without status ended the call
C16_Witness ==
  \E t \in Tasks :
    /\ kind[t] = "exec" /\ pc[t] = "done"
    /\ hist[t].statuses = {429, 0} /\ hist[t].calls = 2 /\ retryCount[t] = 1
    /\ "status" \notin DOMAIN lastError[t]
    /\ result[t].state = "thrown"


IsStandardizedError(e) ==
  /\ {"errorMessage", "errorCode", "errorCategory", "errorSeverity"} \subseteq DOMAIN e
  /\ e.errorCategory \in {"GITHUB_API", "VALIDATION", "UNKNOWN", "SYSTEM", "AUTHENTICATION"}

IsOperationResult(v) ==
  /\ "resultSuccessful" \in DOMAIN v
  /\ IF v.resultSuccessful THEN "resultData" \in DOMAIN v
     ELSE "resultError" \in DOMAIN v /\ IsStandardizedError(v.resultError)

\* C17: whatever the remote call, the executor and the limiter do, a domain operation
\* (createRepositoryIssue, getRepositoryByOwnerAndName) ends by returning an
\* OperationResult, never by throwing: a success exactly when the remote call succeeded,
\* otherwise resultSuccessful = false with a standardized error
C17_DomainOpReturnsResult ==
  /\ [](\A t \in Tasks :
          (domainOp[t] # "none" /\ pc[t] = "returned")
            => /\ result[t].state = "returned"
               /\ IsOperationResult(result[t].value)
               /\ result[t].value.resultSuccessful <=> 200 \in hist[t].statuses)
  /\ [][\A t \in Tasks :
          (domainOp[t] # "none" /\ pc[t] = "done")
            => /\ pc'[t] \in {"done", "returned"}
               /\ (pc'[t] = "returned" /\ result[t].state = "thrown")
                    => /\ result'[t].state = "returned"
                       /\ ~result'[t].value.resultSuccessful]_vars

\* checkRateLimit failed fast before any remote call and the operation returned a failure
C17_Witness ==
  \E t \in Tasks :
    /\ domainOp[t] = "createRepositoryIssue" /\ pc[t] = "returned"
    /\ hist[t].calls = 0 /\ hist[t].seen # NoArg
    /\ ~result[t].value.resultSuccessful
    /\ IsStandardizedError(result[t].value.resultError)


\* the limiter operation that executeWithRateLimiting awaited has thrown
LimiterFailedFast(t) ==
  /\ kind[t] = "exec" /\ pc[t] = "op_done" /\ op[t] \in {"check", "handle"}
  /\ result[t].state = "thrown"

\* C18: when checkRateLimit (wait > 60000 ms) or handleRateLimitExceeded (wait > 120000 ms)
\* fails fast, the facade call ends at once with a GITHUB_API error: it makes no further
\* remote call, starts no backoff and no other timer and does not count a retry, also
\* when retries are left
C18_FastFailEndsCall ==
  /\ [](\A t \in Tasks :
          LimiterFailedFast(t)
            => /\ hist[t].timers = 0
               /\ JsGt(waitTime[t], IF op[t] = "check" THEN 60000 ELSE 120000))
  /\ [][\A t \in Tasks :
          (LimiterFailedFast(t) /\ pc'[t] # pc[t])
            => /\ pc'[t] = "done"
               /\ result'[t].state = "thrown"
               /\ result'[t].errorCategory = "GITHUB_API"
               /\ retryCount'[t] = retryCount[t]
               /\ hist'[t].calls = hist[t].calls
               /\ hist'[t].delays = hist[t].delays
               /\ hist'[t].handles = hist[t].handles
               /\ ~InTimerQ(t)'
               /\ now' = now]_vars

\* after one retried failure checkRateLimit failed fast and the call ended, retries left
C18_Witness ==
  \E t \in Tasks :
    /\ kind[t] = "exec" /\ pc[t] = "done" /\ result[t].state = "thrown"
    /\ retryCount[t] = 1 /\ hist[t].calls = 1 /\ Len(hist[t].delays) = 1
    /\ hist[t].handles = 0
    /\ "errorCategory" \in DOMAIN lastError[t]
    /\ JsGt(waitTime[t], 60000)


\* the facade call of t has ended with an error / with a value
Surfaced(t) == kind[t] = "exec" /\ pc[t] = "done" /\ result[t].state = "thrown"
Succeeded(t) == kind[t] = "exec" /\ pc[t] = "done" /\ result[t].state = "returned"

\* the error that ended the call is the one handleRateLimitExceeded threw
HandleFastFailSurfaced(t) ==
  /\ Surfaced(t)
  /\ result[t].errorMessage = "rate limit exceeded, retry not possible"
  /\ JsGt(waitTime[t], 120000)

\* what C19 says of every facade call but for the clause on the surfaced error
AbsorbedUntilSuccess ==
  /\ [](\A t \in Tasks :
          /\ Succeeded(t)
               => /\ result[t].response = MapperResponse([data |-> "entity"])
                  /\ hist[t].calls = retryCount[t] + 1
                  /\ retryCount[t] <= MAX_RETRY_ATTEMPTS
          /\ kind[t] = "exec" => hist[t].calls <= MAX_RETRY_ATTEMPTS + 1)
  /\ [][\A t \in Tasks :
          /\ (kind[t] = "exec" /\ pc[t] = "call_done" /\ result[t].state = "returned"
                /\ pc'[t] # pc[t])
               => pc'[t] = "done" /\ result'[t] = result[t]
          /\ (kind[t] = "exec" /\ pc[t] \in {"done", "returned"})
               => /\ pc'[t] \in {"done", "returned"}
                  /\ pc'[t] = "done" => result'[t] = result[t]]_vars

\* C19 (as claimed): k <= maxRetries transient failures followed by a success give the
\* success value and no error; an error surfaces only for a terminal failure or after
\* the (maxRetries+1)-th transient failure; a call surfaces at most one error
C19_ErrorOnlyTerminalOrExhausted ==
  /\ AbsorbedUntilSuccess
  /\ [](\A t \in Tasks :
          Surfaced(t)
            => \/ ~TransientAsSpecified(lastError[t])
               \/ hist[t].calls = MAX_RETRY_ATTEMPTS + 1)

\* C19 (amended): the same, and an error also surfaces when handleRateLimitExceeded
\* fails fast after a quota-exceeded failure, whatever the number of retries left
C19_ErrorOnlyTerminalExhaustedOrFastFail ==
  /\ AbsorbedUntilSuccess
  /\ [](\A t \in Tasks :
          Surfaced(t)
            => \/ ~TransientAsSpecified(lastError[t])
               \/ hist[t].calls = MAX_RETRY_ATTEMPTS + 1
               \/ HandleFastFailSurfaced(t) /\ QuotaExceeded(lastError[t]))

\* three transient failures, among them a quota wait, then the success value
C19_Witness ==
  \E t \in Tasks :
    /\ Succeeded(t) /\ retryCount[t] = MAX_RETRY_ATTEMPTS /\ hist[t].calls = 4
    /\ hist[t].handles = 1 /\ Len(hist[t].delays) = 2
    /\ TransientAsSpecified(lastError[t])


\* t is between the return of its acquire() and its release in checkRateLimit or
\* handleRateLimitExceeded
InWaitingSection(t) == op[t] \in {"check", "handle"} /\ InCriticalSection(t)

\* C20: rateLimitInfo is written only by safelyUpdateRateLimitInfo after its acquire()
\* has returned, and never while another caller is inside the critical section of
\* checkRateLimit or handleRateLimitExceeded, in particular not during that caller's wait
C20_StateStableInCriticalSection ==
  [][rateLimitInfo' # rateLimitInfo
       => /\ \E u \in Tasks :
               /\ op[u] = "update" /\ pc[u] = "acquired" /\ pc'[u] # "acquired"
               /\ rateLimitInfo' = arg[u]
          /\ \A t \in Tasks : ~InWaitingSection(t)]_vars


\* RateLimitInfo as the specification types it
WellFormedInfo(info) ==
  /\ ~IsNaN(info.remaining) /\ info.remaining >= 0
  /\ ~IsNaN(info.limit) /\ info.limit > 0
  /\ ~IsNaN(info.resetTime) /\ info.resetTime >= 0

\* C21: rateLimitInfo always holds an integer remaining >= 0, an integer limit > 0 and
\* a timestamp resetTime, from the initial record on: headers that are present but are
\* not the text of such numbers never replace the state
C21_StateWellFormed ==
  /\ WellFormedInfo(InitialInfo)
  /\ WellFormedInfo(rateLimitInfo)


\* the records that the quota headers of the remote responses stand for
ResponseRecords == {NewRateLimitInfo(r.headers) : r \in OctokitResponses}

\* C22: when the remote call of a GitHubService method has succeeded and the response
\* carried all three quota headers, the headers have been passed to
\* updateRateLimitFromHeaders, and once that update is applied rateLimitInfo holds
\* their values
C22_HeadersFedOnSuccess ==
  \A t \in Tasks :
    (kind[t] = "exec" /\ pc[t] = "done" /\ result[t].state = "returned")
      => /\ \A r \in OctokitResponses : HeadersComplete(r.headers)
         /\ lastIssued \in ResponseRecords
         /\ ~UpdateInFlight => rateLimitInfo \in ResponseRecords


\* C23: when the remote call failed terminally or after its retries, or the limiter
\* failed fast, the OperationResult that the domain operation returns carries a
\* standardized error of category GITHUB_API
C23_FailureCategoryGithubApi ==
  \A t \in Tasks :
    (domainOp[t] # "none" /\ kind[t] = "exec" /\ pc[t] = "returned"
       /\ ~result[t].value.resultSuccessful)
      => /\ IsStandardizedError(result[t].value.resultError)
         /\ result[t].value.resultError.errorCategory = "GITHUB_API"


\* the checkRateLimit call of t's current attempt has run through and returned
CheckReturned(t) ==
  /\ kind[t] = "exec" /\ op[t] = "check" /\ pc[t] = "op_done"
  /\ hist[t].seen # NoArg
  /\ result[t].state = "returned"

\* C24: in every attempt of a facade call, first or retry, the remote call is invoked
\* only when the checkRateLimit call of that attempt has returned; after a
\* checkRateLimit that threw no remote call is invoked in that attempt
C24_CheckBeforeEveryCall ==
  [][\A t \in Tasks :
       /\ (pc'[t] = "calling" /\ pc[t] # "calling")
            => CheckReturned(t) /\ hist'[t].calls = hist[t].calls + 1
       /\ hist'[t].calls # hist[t].calls
            => CheckReturned(t) /\ pc'[t] = "calling"
       /\ (kind[t] = "exec" /\ op[t] = "check" /\ pc[t] = "op_done"
             /\ result[t].state = "thrown")
            => pc'[t] \in {"op_done", "done"}
       /\ (kind[t] = "exec" /\ op[t] \in {"backoff", "handle"})
            => op'[t] \in {op[t], "check", "none"}]_vars

\* the remote call of a retry is under way after a checkRateLimit that waited
C24_Witness ==
  \E t \in Tasks :
    /\ kind[t] = "exec" /\ pc[t] = "calling"
    /\ hist[t].calls = 2 /\ retryCount[t] = 1
    /\ hist[t].seen # NoArg /\ hist[t].timers = 1


\* the step is one of t's checkRateLimit call
CheckStep(t) == op[t] = "check" /\ (pc'[t] # pc[t] \/ op'[t] # op[t])

\* C25: no step of checkRateLimit changes rateLimitInfo, whichever branch it takes
\* (limiting disabled, admitted, returned after a wait, failed fast): remaining is not
\* decremented on admission and not reset after a wait; the state changes only when a
\* header update is applied
C25_CheckLeavesStateUnchanged ==
  /\ [](lastIssued = NoArg => rateLimitInfo = InitialInfo)
  /\ [][/\ \A t \in Tasks : CheckStep(t) => rateLimitInfo' = rateLimitInfo
        /\ rateLimitInfo' # rateLimitInfo
             => \E u \in Tasks : op[u] = "update" /\ pc[u] = "acquired" /\ pc'[u] # pc[u]]_vars

\* a checkRateLimit call has returned after its wait and the low remaining it read is
\* still the state
C25_Witness ==
  \E t \in Tasks :
    /\ kind[t] = "check" /\ OpEnded(t) /\ result[t].state = "returned"
    /\ hist[t].timers = 1
    /\ rateLimitInfo.remaining = hist[t].seen.remaining
    /\ rateLimitInfo.resetTime = hist[t].seen.resetTime
    /\ rateLimitInfo.remaining <= config.minRemaining


\* whether the wait of operation o hands out a cancel(): checkRateLimit and
\* handleRateLimitExceeded call setTimeout inside `new Promise`, where timeoutId is a
\* local of the executor; the backoff holds the object that createSafeTimeout returns
WaitHasCancel(o) ==
  CASE o = "check"   -> FALSE
    [] o = "handle"  -> FALSE
    [] o = "backoff" -> TRUE

PendingWait(t) ==
  pc[t] = "waiting" /\ op[t] \in {"check", "handle", "backoff"} /\ InTimerQ(t)

\* C26: each pending wait of the core (the throttle wait of checkRateLimit, the wait of
\* handleRateLimitExceeded, the backoff of the executor) was created by the cancellable
\* timeout and so has a cancel operation that keeps it from firing and clears its timer
C26_WaitsCancellable ==
  \A t \in Tasks : PendingWait(t) => WaitHasCancel(op[t])


IsRetryCall(t) == kind[t] = "retry"

\* C27: withRetry without onRetry invokes operation at most maxRetries + 1 times (once
\* when maxRetries = 0), waits baseDelayMs * 2^k before the retry that follows failed
\* attempt k (k from 0), ends at the first success or the first error that shouldRetry
\* refuses, and throws the last error as it was
C27_WithRetryPolicy ==
  /\ [](\A t \in Tasks :
          IsRetryCall(t)
            => /\ hist[t].calls <= arg[t].maxRetries + 1
               /\ Len(hist[t].delays) \in {hist[t].calls - 1, hist[t].calls}
               /\ \A k \in 1..Len(hist[t].delays) :
                    hist[t].delays[k] = arg[t].baseDelayMs * (2 ^ (k - 1))
               /\ pc[t] = "done"
                    => /\ Len(hist[t].delays) = hist[t].calls - 1
                       /\ arg[t].maxRetries = 0 => hist[t].calls = 1
                       /\ result[t].state = "returned" => result[t] \in OperationValues
                       /\ result[t].state = "thrown"
                            => /\ result[t] = lastError[t]
                               /\ result[t] \in OperationErrors
                               /\ \/ hist[t].calls = arg[t].maxRetries + 1
                                  \/ ~ShouldRetryError(arg[t].shouldRetry, result[t]))
  /\ [][\A t \in Tasks :
          /\ (IsRetryCall(t) /\ pc[t] = "call_done" /\ pc'[t] # pc[t])
               => IF result[t].state = "returned"
                    \/ hist[t].calls = arg[t].maxRetries + 1
                    \/ ~ShouldRetryError(arg[t].shouldRetry, result[t])
                  THEN pc'[t] = "done" /\ result'[t] = result[t] /\ ~InTimerQ(t)'
                  ELSE /\ pc'[t] = "waiting" /\ InTimerQ(t)'
                       /\ deadline'[t] = now + arg[t].baseDelayMs * (2 ^ (hist[t].calls - 1))
          /\ (IsRetryCall(t) /\ hist'[t].calls # hist[t].calls /\ hist[t].calls > 0)
               => /\ pc[t] = "woken" /\ now >= deadline[t]
                  /\ hist'[t].calls = hist[t].calls + 1
          /\ (IsRetryCall(t) /\ pc[t] = "done") => pc'[t] = "done" /\ result'[t] = result[t]]_vars

\* two failures were waited for with 1000 and 2000 ms; the third attempt failed with no
\* retry left and its error is thrown
C27_Witness ==
  \E t \in Tasks :
    /\ IsRetryCall(t) /\ pc[t] = "done"
    /\ arg[t].maxRetries = 2 /\ arg[t].baseDelayMs = 1000
    /\ hist[t].calls = 3 /\ hist[t].delays = <<1000, 2000>>
    /\ result[t].state = "thrown" /\ result[t].status = 500


\* t is suspended in, or queued to leave, the `await this._locking` of acquire()
InAcquire(t) == pc[t] = "acq_await"
InQueue(t) == \E i \in 1..Len(mq) : mq[i] = t

\* C29: every acquire() call returns its release function in the end, given that every
\* caller that acquired invokes its release: no wake-up is lost, also for a waiter
\* suspended on a promise that _locking no longer refers to
C29_AcquireReturns ==
  \A t \in 1..MaxMutexCallers : InAcquire(t) ~> (pc[t] \notin {"idle", "acq_await"})

\* w was woken by the release of a promise that _locking no longer refers to: u made
\* the current promise and is in its wait, and w's continuation is queued
C29_Witness ==
  \E w, u \in Tasks :
    /\ w # u
    /\ InAcquire(w) /\ InQueue(w)
    /\ locking = u /\ owns[u] /\ pc[u] = "waiting"


\* C28: every facade call ends (returns or throws), also next to another facade call
\* on the same limiter, given that every remote call settles and every timer fires; no
\* call stays suspended on the mutex, and no call makes more than MAX_RETRY_ATTEMPTS + 1
\* attempts
\* (an ended call stays ended, so "each call ends" is: from some point on every call
\* that was started has ended)
C28_FacadeCallEnds ==
  /\ [](\A t \in Tasks : kind[t] = "exec" => hist[t].calls <= MAX_RETRY_ATTEMPTS + 1)
  /\ [][\A t \in Tasks : (kind[t] = "exec" /\ pc[t] = "done") => pc'[t] = "done"]_vars
  /\ <>[](\A t \in Tasks : kind[t] = "exec" => pc[t] = "done")

\* two facade calls ran side by side; one ended after four attempts, the other after
\* waits in handleRateLimitExceeded
C28_Witness ==
  \E t, u \in Tasks :
    /\ t # u
    /\ kind[t] = "exec" /\ pc[t] = "done" /\ hist[t].calls = MAX_RETRY_ATTEMPTS + 1
    /\ kind[u] = "exec" /\ pc[u] = "done" /\ hist[u].handles >= 1 /\ hist[u].calls >= 2


\* u is a safelyUpdateRateLimitInfo call that updateRateLimitFromHeaders has issued;
\* callers are numbered in the order of their calls
IssuedUpdate(u) == kind[u] = "update" /\ op[u] = "update"
HasReadState(c) == kind[c] = "check" /\ hist[c].seen # NoArg

\* C30: an update issued by updateRateLimitFromHeaders with all three headers has been
\* applied to rateLimitInfo when a checkRateLimit call that was started after
\* updateRateLimitFromHeaders returned reads remaining and resetTime
C30_UpdateNotOvertaken ==
  \A u, c \in Tasks :
    (IssuedUpdate(u) /\ u < c /\ HasReadState(c)) => pc[u] = "done"

====
